---- MODULE Spec2Model ----
(***************************************************************************)
(* Assessment and completion engine of the e-learning backend:             *)
(*   - AssignmentSubmissionViewSet.perform_create (attempt gate and the    *)
(*     MCQ / QA auto-graders) and AssignmentSubmissionViewSet.grade,       *)
(*   - Enrollment.calculate_progress and                                   *)
(*     Enrollment.check_completion_and_issue_certificate,                  *)
(*   - ContentViewSet.mark_complete, EnrollmentViewSet.refresh_completion  *)
(*     and CourseViewSet.rate, the callers of the completion check.        *)
(*                                                                         *)
(* One course with one enrolled student ("s1") and one student who is not  *)
(* enrolled ("s2").  Every handler runs on a worker; a worker executes one *)
(* database statement per step, so two handlers interleave between their   *)
(* statements exactly as two requests do on two server threads (no handler *)
(* of views.py opens a transaction or takes a row lock).                   *)
(*                                                                         *)
(* Grades are kept in hundredths of a percent (50.00 is 5000), which is    *)
(* the resolution of DecimalField(max_digits=5, decimal_places=2).         *)
(* Free-text answers and keywords are sequences of one-character strings.  *)
(* The arithmetic of the QA grader is exact (credits are kept in units of  *)
(* 1/Scale point); binary floating-point error of the source is not        *)
(* modelled.                                                               *)
(*                                                                         *)
(* Specifications:                                                         *)
(*   Spec          all handlers on the one course;                         *)
(*   SpecGate      attempts and manual grades by the course teacher;       *)
(*   SpecManual    attempts and the grade action with every grader and     *)
(*                 posted grade;                                           *)
(*   SpecGrader    the mcq and qa graders applied to a bounded family of   *)
(*                 question tables and payloads;                           *)
(*   SpecProgress  calculate_progress applied to a bounded family of       *)
(*                 databases;                                              *)
(*   SpecUpdate    attempts, manual grades and PUT/PATCH of submissions;   *)
(*   SpecPayload   attempts with well-formed and malformed payloads;       *)
(*   SpecContent   mark_complete with get_or_create as two statements and  *)
(*                 the awards observed;                                    *)
(*   SpecEvents    all handlers, with the awards observed;                 *)
(*   SpecAwards    attempts and manual grades, with the awards observed;   *)
(*   SpecCanAttempt  get_can_attempt followed by one attempt request in a  *)
(*                 bounded family of databases;                            *)
(*   SpecCourse    mark_complete and attempts while the teacher adds,      *)
(*                 deletes and moves content and assignments.              *)
(***************************************************************************)
EXTENDS Integers, Sequences, FiniteSets, TLC

\* ------------------------------------------------------------------ bounds
\* Number of handler invocations (requests) begun in one behaviour of Spec.
MaxRequests == 3
\* Number of attempt and grade requests begun in one behaviour of SpecGate.
MaxGateRequests == 4
\* Number of attempt and grade requests begun in one behaviour of SpecManual.
MaxManualRequests == 3
\* Number of attempt, grade and update requests begun in one behaviour of SpecUpdate.
MaxUpdateRequests == 3
\* Number of attempt requests begun in one behaviour of SpecPayload.
MaxPayloadRequests == 3
\* Number of mark_complete requests begun in one behaviour of SpecContent.
MaxContentRequests == 3
\* Number of mark_complete and attempt requests begun in one behaviour of SpecCourse.
MaxCourseRequests == 3

\* ------------------------------------------------------------------ data
Workers == 1..2
Students == {"s1", "s2"}
\* Enrollment rows: (student, course) pairs of the one course.
Enrolled == {"s1"}
Assignments == {"a1", "a2"}
\* uuid4().hex[:8] of the verification code, drawn from two values.
Codes == {"u1", "u2"}

\* grade IS NULL
NoGrade == 0 - 1000000

\* Assignment rows.  max_attempts and the passing_grade of a1 are the model
\* defaults; a2 has a passing grade of its own.
AssignmentCfg ==
  [a1 |-> [assignment_type |-> "mcq", passing_grade |-> 60, max_attempts |-> 3],
   a2 |-> [assignment_type |-> "qa", passing_grade |-> 70, max_attempts |-> 3]]

\* Text literals.
T_recursion == <<"r","e","c","u","r","s","i","o","n">>
T_base_case == <<"b","a","s","e"," ","c","a","s","e">>
T_stack == <<"s","t","a","c","k">>
T_goto == <<"g","o","t","o">>
T_a_loop == <<"a"," ","l","o","o","p">>
T_empty == <<>>

NoKw == <<>>

\* AssignmentQuestion rows (with their AssignmentOption rows as the set of
\* option ids and the subset flagged is_correct).
Questions ==
  [q1 |-> [assignment |-> "a1", question_type |-> "mcq", points |-> 50,
           options |-> {"o1", "o2"}, correct |-> {"o1"},
           keywords |-> NoKw, required_keywords |-> NoKw,
           negative_keywords |-> NoKw, acceptable_answers |-> NoKw],
   q2 |-> [assignment |-> "a1", question_type |-> "mcq", points |-> 50,
           options |-> {"o3", "o4"}, correct |-> {"o3"},
           keywords |-> NoKw, required_keywords |-> NoKw,
           negative_keywords |-> NoKw, acceptable_answers |-> NoKw],
   q3 |-> [assignment |-> "a2", question_type |-> "qa", points |-> 20,
           options |-> {}, correct |-> {},
           keywords |-> <<T_base_case, T_stack>>,
           required_keywords |-> <<T_recursion>>,
           negative_keywords |-> <<T_goto>>,
           acceptable_answers |-> <<T_a_loop>>]]

QuestionIds == DOMAIN Questions

\* ------------------------------------------------------------------ text
\* str.lower() on the characters the model uses.
LowerChar(c) ==
  CASE c = "A" -> "a"
    [] c = "B" -> "b"
    [] c = "R" -> "r"
    [] c = "G" -> "g"
    [] c = "L" -> "l"
    [] c = "S" -> "s"
    [] OTHER -> c

Lower(s) == [i \in 1..Len(s) |-> LowerChar(s[i])]

IsSpace(c) == c = " "

RECURSIVE LStrip(_)
LStrip(s) == IF s # <<>> /\ IsSpace(Head(s)) THEN LStrip(Tail(s)) ELSE s

RECURSIVE RStrip(_)
RStrip(s) ==
  IF s # <<>> /\ IsSpace(s[Len(s)]) THEN RStrip(SubSeq(s, 1, Len(s) - 1)) ELSE s

\* str.strip()
Strip(s) == RStrip(LStrip(s))

\* Python's `kw in text` for strings: kw occurs as a contiguous substring.
Contains(text, kw) ==
  \E i \in 0..(Len(text) - Len(kw)) : SubSeq(text, i + 1, i + Len(kw)) = kw

InSeq(x, seq) == \E i \in 1..Len(seq) : seq[i] = x

\* norm_list: strip and lowercase every item, drop the empty ones, drop
\* duplicates keeping the first occurrence.
RECURSIVE NormFrom(_, _)
NormFrom(items, out) ==
  IF items = <<>> THEN out
  ELSE LET s == Lower(Strip(Head(items)))
       IN  IF Strip(Head(items)) = <<>> \/ InSeq(s, out)
           THEN NormFrom(Tail(items), out)
           ELSE NormFrom(Tail(items), Append(out, s))

norm_list(items) == NormFrom(items, <<>>)

\* sum(1 for kw in kws if kw in text)
RECURSIVE CountFound(_, _)
CountFound(kws, text) ==
  IF kws = <<>> THEN 0
  ELSE (IF Contains(text, Head(kws)) THEN 1 ELSE 0) + CountFound(Tail(kws), text)

\* ------------------------------------------------------------------ arithmetic
Max(a, b) == IF a >= b THEN a ELSE b
Min(a, b) == IF a <= b THEN a ELSE b

\* Credits are integers in units of 1/Scale point: 5 for the 0.2 penalty
\* factor, 6 for optional-keyword lists of 1, 2 or 3 entries.
Scale == 5 * 6

\* round(): n/d (d > 0) to the nearest integer, ties to the even one.
RoundDiv(n, d) ==
  LET q == n \div d
      r == n % d
  IN  IF 2 * r < d THEN q
      ELSE IF 2 * r > d THEN q + 1
      ELSE IF q % 2 = 0 THEN q ELSE q + 1

\* round(earned / total * 100, 2) in hundredths of a percent, for earned in
\* units of 1/unit point.  total is `sum(...) or 1`, which may be negative.
Percent(earned, unit, total) ==
  IF total > 0 THEN RoundDiv(earned * 10000, unit * total)
  ELSE RoundDiv((0 - earned) * 10000, unit * (0 - total))

RECURSIVE SumPoints(_, _)
SumPoints(qt, qs) ==
  IF qs = {} THEN 0
  ELSE LET q == CHOOSE x \in qs : TRUE
       IN  qt[q].points + SumPoints(qt, qs \ {q})

\* `x or 1`
OrOne(x) == IF x = 0 THEN 1 ELSE x

\* ------------------------------------------------------------------ auto-graders
\* An answers payload is a sequence of entries
\*   [question_id, selected_option_ids (a list), text_answer];
\* qt is the AssignmentQuestion table, a the assignment being graded.

\* AssignmentQuestion.objects.filter(assignment=assignment, question_type=t)
QuestionsOf(qt, a, t) ==
  {q \in DOMAIN qt : qt[q].assignment = a /\ qt[q].question_type = t}

\* set(list)
SetOf(list) == {list[i] : i \in 1..Len(list)}

\* One iteration of the MCQ loop: the points added to earned_points.
McqEarnedSubset(qt, a, ans) ==
  IF ans.question_id \in QuestionsOf(qt, a, "mcq")
     /\ SetOf(ans.selected_option_ids) # {}
     /\ SetOf(ans.selected_option_ids) \subseteq qt[ans.question_id].correct
  THEN qt[ans.question_id].points
  ELSE 0

McqEarned(qt, a, ans) ==
  IF ans.question_id \in QuestionsOf(qt, a, "mcq")
     /\ SetOf(ans.selected_option_ids) = qt[ans.question_id].correct
  THEN qt[ans.question_id].points
  ELSE 0

RECURSIVE McqSum(_, _, _)
McqSum(qt, a, answers) ==
  IF answers = <<>> THEN 0
  ELSE McqEarned(qt, a, Head(answers)) + McqSum(qt, a, Tail(answers))

\* The MCQ branch of perform_create: the percent stored as the grade.
McqPercent(qt, a, answers) ==
  LET total_points_available == OrOne(SumPoints(qt, QuestionsOf(qt, a, "mcq")))
      earned_points == McqSum(qt, a, answers)
  IN  Percent(earned_points, 1, total_points_available)

\* One iteration of the QA loop for a question of the assignment: the
\* credit added to earned_points, in units of 1/Scale point.
QaCreditRequiredFirst(q, text_raw) ==
  LET pts == q.points
      text == Lower(text_raw)
      norm_text == Strip(text)
      acceptable == norm_list(q.acceptable_answers)
      required == norm_list(q.required_keywords)
      opt == norm_list(q.keywords)
      neg == norm_list(q.negative_keywords)
      opt_credit == IF opt # <<>>
                    THEN (Scale * pts * CountFound(opt, text)) \div Len(opt)
                    ELSE Scale * pts
      penalty == IF neg # <<>>
                 THEN (Scale \div 5) * pts * CountFound(neg, text)
                 ELSE 0
  IN  IF pts <= 0 THEN 0
      ELSE IF required # <<>> /\ CountFound(required, text) # Len(required) THEN 0
      ELSE IF acceptable # <<>> /\ InSeq(norm_text, acceptable) THEN Scale * pts
      ELSE Max(0, Min(Scale * pts, opt_credit - penalty))

QaCreditAnyRequired(q, text_raw) ==
  LET pts == q.points
      text == Lower(text_raw)
      norm_text == Strip(text)
      acceptable == norm_list(q.acceptable_answers)
      required == norm_list(q.required_keywords)
      opt == norm_list(q.keywords)
      neg == norm_list(q.negative_keywords)
      opt_credit == IF opt # <<>>
                    THEN (Scale * pts * CountFound(opt, text)) \div Len(opt)
                    ELSE Scale * pts
      penalty == IF neg # <<>>
                 THEN (Scale \div 5) * pts * CountFound(neg, text)
                 ELSE 0
  IN  IF pts <= 0 THEN 0
      ELSE IF acceptable # <<>> /\ InSeq(norm_text, acceptable) THEN Scale * pts
      ELSE IF required # <<>> /\ CountFound(required, text) = 0 THEN 0
      ELSE Max(0, Min(Scale * pts, opt_credit - penalty))

QaCreditAllOrNothing(q, text_raw) ==
  LET pts == q.points
      text == Lower(text_raw)
      norm_text == Strip(text)
      acceptable == norm_list(q.acceptable_answers)
      required == norm_list(q.required_keywords)
      opt == norm_list(q.keywords)
      neg == norm_list(q.negative_keywords)
      opt_credit == IF opt # <<>>
                    THEN (IF CountFound(opt, text) = Len(opt) THEN Scale * pts ELSE 0)
                    ELSE Scale * pts
      penalty == IF neg # <<>>
                 THEN (Scale \div 5) * pts * CountFound(neg, text)
                 ELSE 0
  IN  IF pts <= 0 THEN 0
      ELSE IF acceptable # <<>> /\ InSeq(norm_text, acceptable) THEN Scale * pts
      ELSE IF required # <<>> /\ CountFound(required, text) # Len(required) THEN 0
      ELSE Max(0, Min(Scale * pts, opt_credit - penalty))

QaCredit(q, text_raw) ==
  LET pts == q.points
      text == Lower(text_raw)
      norm_text == Strip(text)
      acceptable == norm_list(q.acceptable_answers)
      required == norm_list(q.required_keywords)
      opt == norm_list(q.keywords)
      neg == norm_list(q.negative_keywords)
      opt_credit == IF opt # <<>>
                    THEN (Scale * pts * CountFound(opt, text)) \div Len(opt)
                    ELSE Scale * pts
      penalty == IF neg # <<>>
                 THEN (Scale \div 5) * pts * CountFound(neg, text)
                 ELSE 0
  IN  IF pts <= 0 THEN 0
      ELSE IF acceptable # <<>> /\ InSeq(norm_text, acceptable) THEN Scale * pts
      ELSE IF required # <<>> /\ CountFound(required, text) # Len(required) THEN 0
      ELSE Max(0, Min(Scale * pts, opt_credit - penalty))

QaEarned(qt, a, ans) ==
  IF ans.question_id \in QuestionsOf(qt, a, "qa")
  THEN QaCredit(qt[ans.question_id], ans.text_answer)
  ELSE 0

RECURSIVE QaSum(_, _, _)
QaSum(qt, a, answers) ==
  IF answers = <<>> THEN 0
  ELSE QaEarned(qt, a, Head(answers)) + QaSum(qt, a, Tail(answers))

\* The QA branch of perform_create: the percent stored as the grade.
QaPercent(qt, a, answers) ==
  LET total_points_available == OrOne(SumPoints(qt, QuestionsOf(qt, a, "qa")))
      earned_points == QaSum(qt, a, answers)
  IN  Percent(earned_points, Scale, total_points_available)

AutoGrade(qt, t, a, answers) ==
  IF t = "mcq" THEN McqPercent(qt, a, answers) ELSE QaPercent(qt, a, answers)


\* ------------------------------------------------------------------ inputs
\* Answers payloads the student sends, by assignment.
Ans(q, sel, text) == [question_id |-> q, selected_option_ids |-> sel, text_answer |-> text]

T_answer_half ==
  <<"R","e","c","u","r","s","i","o","n"," ","w","i","t","h"," ","a"," ",
    "b","a","s","e"," ","c","a","s","e">>
T_answer_full ==
  <<"r","e","c","u","r","s","i","o","n",":"," ","b","a","s","e"," ","c","a","s","e",
    ","," ","s","t","a","c","k">>

\* "selected_option_ids": 5 in the JSON payload: a number where a list is
\* expected (JSONField accepts any JSON value).
NotAList == <<"5">>

Payloads ==
  [p_q1 |-> <<Ans("q1", <<"o1">>, T_empty)>>,
   p_both |-> <<Ans("q1", <<"o1">>, T_empty), Ans("q2", <<"o3">>, T_empty)>>,
   p_twice |-> <<Ans("q1", <<"o1">>, T_empty), Ans("q2", <<"o3">>, T_empty),
                 Ans("q2", <<"o3">>, T_empty)>>,
   t_half |-> <<Ans("q3", <<>>, T_answer_half)>>,
   t_full |-> <<Ans("q3", <<>>, T_answer_full)>>,
   t_twice |-> <<Ans("q3", <<>>, T_answer_full), Ans("q3", <<>>, T_answer_half)>>,
   p_foreign |-> <<Ans("q3", <<"o1">>, T_empty), Ans("q1", <<"o1">>, T_empty)>>,
   p_number |-> <<Ans("q1", NotAList, T_empty)>>,
   t_foreign |-> <<Ans("q1", <<>>, T_answer_full)>>]

PayloadsFor(a) ==
  IF AssignmentCfg[a].assignment_type = "mcq"
  THEN {"p_q1", "p_both", "p_twice"}
  ELSE {"t_half", "t_full", "t_twice"}

\* Malformed payloads: an entry with the id of a question of another
\* assignment, a selection that is not a list.
MalformedFor(a) ==
  IF AssignmentCfg[a].assignment_type = "mcq"
  THEN {"p_foreign", "p_number"}
  ELSE {"t_foreign"}

\* set(ans.get('selected_option_ids') or []) raises TypeError for a number
\* other than 0; it is evaluated for every entry, before the question id is
\* looked up.
GraderRaises(t, answers) ==
  t = "mcq" /\ \E i \in 1..Len(answers) : answers[i].selected_option_ids = NotAList

\* Grades (percent) a teacher posts to the grade action.
ManualGrades == {50, 150}

\* Content rows the teacher may add to the course.
ContentIds == {"c1"}

\* ------------------------------------------------------------------ state
VARIABLES
  contents,      \* Content rows of the course (ids)
  assignments,   \* Assignment rows of the course (ids)
  progress,      \* ContentProgress rows of the enrollment, all completed=True
  enrStatus,     \* Enrollment.status of the enrollment of s1, in the database
  submissions,   \* AssignmentSubmission rows of the enrollment, per assignment,
                 \* in insertion order
  certificates,  \* Certificate rows, in insertion order
  req,           \* per worker: the handler it runs, its position and locals
  last,          \* the response returned last: handler, detail, HTTP status
  budget,        \* handler invocations that may still begin
  call,          \* the grader or progress call under examination: its
                 \* arguments and, once it has run, its result
  events         \* the events handed to the gamification functions (award_xp,
                 \* the UserStats counters), counted where they are observed

vars == <<contents, assignments, progress, enrStatus, submissions, certificates,
          req, last, budget, call, events>>

db == <<contents, assignments, progress, enrStatus, submissions, certificates>>

\* A worker between requests.
Idle ==
  [op |-> "none", pc |-> "idle", a |-> "-", used |-> 0, row |-> 0, answers |-> "-",
   grade |-> 0, was_ungraded |-> FALSE, content |-> "-", status |-> "-", before |-> "-",
   has_certificate |-> FALSE, ret |-> "-"]

\* No call is under examination.
NoCall == [fn |-> "none"]

\* The gamification records are not observed: the awards change no row of
\* the course, enrollment, submission or certificate tables, and no handler
\* modelled here reads them.
NoEvents == [observed |-> FALSE]

\* No award has been made.  completed_by is the handler whose save() moved
\* the Enrollment row from 'active' to 'completed' ("-" while it is active).
ZeroEvents ==
  [observed |-> TRUE,
   content_completed |-> [c \in ContentIds |-> 0],
   course_completed |-> 0,
   assignment_passed |-> [a \in Assignments |-> 0],
   completed_by |-> "-"]

\* A response: the handler, what it answered, the HTTP status, and the
\* result of the completion check it made ("-" if it made none).
Response(op, detail, http, ret) ==
  [op |-> op, detail |-> detail, http |-> http, ret |-> ret]

Init ==
  /\ contents = {}
  /\ assignments = {}
  /\ progress = {}
  /\ enrStatus = "active"
  /\ submissions = [a \in Assignments |-> <<>>]
  /\ certificates = <<>>
  /\ req = [w \in Workers |-> Idle]
  /\ last = Response("none", "-", 0, "-")
  /\ budget = MaxRequests
  /\ call = NoCall
  /\ events = NoEvents

\* A handler invocation begins on an idle worker (the workers are
\* interchangeable: the request is taken by the first idle one).
Begin(w) ==
  /\ req[w].pc = "idle"
  /\ \A v \in Workers : req[v].pc = "idle" => w <= v
  /\ budget > 0
  /\ budget' = budget - 1

\* The handler goes on with locals r.
Running(w, r) == /\ req' = [req EXCEPT ![w] = r]
                 /\ UNCHANGED last

\* The handler returns its response.
RespondAs(w, op, detail, http, ret) ==
  /\ req' = [req EXCEPT ![w] = Idle]
  /\ last' = Response(op, detail, http, ret)

Respond(w, detail, http, ret) == RespondAs(w, req[w].op, detail, http, ret)

\* The handler begins with locals r.
Start(w, op, r) == /\ req' = [req EXCEPT ![w] = [r EXCEPT !.op = op]]
                   /\ UNCHANGED last

\* ------------------------------------------------------------------ queries
\* Primary keys of the AssignmentSubmission rows: <<assignment, index>>.
Rows == UNION {{<<a, i>> : i \in 1..Len(submissions[a])} : a \in Assignments}

\* AssignmentSubmission.objects.filter(enrollment=enrollment, assignment=assignment)
Existing(a) == 1..Len(submissions[a])

Graded(a) == {i \in Existing(a) : submissions[a][i].status = "graded"}

\* existing.filter(status='graded').order_by('-grade').first(): 0 is None.
\* (A graded row never has a NULL grade, so the order of NULLs is immaterial.)
Best(a) ==
  IF Graded(a) = {} THEN 0
  ELSE CHOOSE i \in Graded(a) :
         \A j \in Graded(a) : submissions[a][i].grade >= submissions[a][j].grade

\* grade >= assignment.passing_grade (never true of a NULL grade)
PassesDefaultGrade(a, grade) == grade # NoGrade /\ grade >= 60 * 100

Passes(a, grade) == grade # NoGrade /\ grade >= AssignmentCfg[a].passing_grade * 100

\* best and best.grade is not None and best.grade >= assignment.passing_grade
BestPassed(a) == Best(a) # 0 /\ Passes(a, submissions[a][Best(a)].grade)

\* existing.filter(status='submitted').exists()
PendingExists(a) == \E i \in Existing(a) : submissions[a][i].status = "submitted"

\* Certificate.objects.filter(student=..., course=...).exists()
CertificateExists(student) ==
  \E i \in 1..Len(certificates) : certificates[i].student = student

\* Enrollment.calculate_progress, in tenths of a percent.
calculate_progress ==
  LET total_content_count == Cardinality(contents)
      completed_content_count == Cardinality(progress)
      total_assignment_count == Cardinality(assignments)
      completed_assignment_count ==
        Cardinality({a \in assignments :
          \E i \in Graded(a) : Passes(a, submissions[a][i].grade)})
      total_items == total_content_count + total_assignment_count
      completed_items == completed_content_count + completed_assignment_count
  IN  IF total_items = 0 THEN 0
      ELSE RoundDiv(completed_items * 1000, total_items)


\* ------------------------------------------------------------------ gamification
\* award_xp(user, XP_CONFIG['content_complete'], 'content', ...)
ContentCompleted(c) ==
  events' = IF events.observed
            THEN [events EXCEPT !.content_completed[c] = @ + 1] ELSE events

\* award_xp(user, XP_CONFIG['course_complete'], 'course', ...) and
\* stats.courses_completed += 1
CourseCompleted ==
  events' = IF events.observed
            THEN [events EXCEPT !.course_completed = @ + 1] ELSE events

\* _award_assignment_xp(user, assignment, submission, attempt_number): the
\* award is made for a graded submission whose grade passes.
award_assignment_xp(a, status, grade) ==
  events' = IF events.observed /\ grade # NoGrade /\ status = "graded" /\ Passes(a, grade)
            THEN [events EXCEPT !.assignment_passed[a] = @ + 1] ELSE events

\* The handler `op` saves the Enrollment row with `status`.
StatusSaved(op, status) ==
  events' = IF events.observed /\ enrStatus # "completed" /\ status = "completed"
            THEN [events EXCEPT !.completed_by = op] ELSE events

\* ------------------------------------------------------------------ constraints
\* unique_together = ('enrollment', 'assignment', 'attempt_number'): the
\* INSERT of a row with this key is accepted.
SubmissionUniqueOff(a, n) == TRUE

SubmissionUnique(a, n) ==
  ~ \E i \in Existing(a) : submissions[a][i].attempt_number = n

\* unique_together = ('student', 'course') of Certificate: the INSERT of a
\* certificate of this student (for the one course) is accepted.
CertificateUniqueOff(student) == TRUE

CertificateUnique(student) == ~ CertificateExists(student)

\* unique_together = ('enrollment', 'content') of ContentProgress: the INSERT
\* of a row of the enrollment for this content is accepted.
ContentProgressUniqueOff(c) == TRUE

ContentProgressUnique(c) == c \notin progress

\* ------------------------------------------------------------------ teacher
\* ContentViewSet.perform_create: the course teacher adds a content item.
AddContent(c) ==
  /\ c \in ContentIds \ contents
  /\ contents' = contents \cup {c}
  /\ UNCHANGED <<assignments, progress, enrStatus, submissions, certificates, req, last, budget, call, events>>

\* AssignmentViewSet.perform_create: the course teacher adds an assignment.
AddAssignment(a) ==
  /\ a \in Assignments \ assignments
  /\ assignments' = assignments \cup {a}
  /\ UNCHANGED <<contents, progress, enrStatus, submissions, certificates, req, last, budget, call, events>>

\* ------------------------------------------------------------------ attempt
\* Rules 1 and 2 of the gate, decided after the `best` query.
GateDecisionLimitFirst(a, passed, attempts_used) ==
  IF attempts_used >= AssignmentCfg[a].max_attempts THEN "NoAttemptsLeft"
  ELSE IF passed THEN "AlreadyPassed"
  ELSE "allowed"

GateDecisionOffByOne(a, passed, attempts_used) ==
  IF passed THEN "AlreadyPassed"
  ELSE IF attempts_used > AssignmentCfg[a].max_attempts THEN "NoAttemptsLeft"
  ELSE "allowed"

GateDecision(a, passed, attempts_used) ==
  IF passed THEN "AlreadyPassed"
  ELSE IF attempts_used >= AssignmentCfg[a].max_attempts THEN "NoAttemptsLeft"
  ELSE "allowed"

\* Rule 3 of the gate: `assignment.assignment_type == 'qa' and ...` makes the
\* `submitted` query for Q&A assignments only.
NeedsPendingCheckNever(a) == FALSE

NeedsPendingCheck(a) == AssignmentCfg[a].assignment_type = "qa"

\* Status of the response to POST .../submissions/ once perform_create has
\* returned: CreateModelMixin.create ignores what perform_create returns and
\* answers 201 Created with serializer.data.
CreateResponse(detail) == 201

\* perform_create up to `attempts_used = existing.count()`.
AttemptBegin(w, u, a) ==
  /\ Begin(w)
  /\ a \in assignments
  /\ IF u \notin Enrolled
     THEN RespondAs(w, "attempt", "NotEnrolled", CreateResponse("NotEnrolled"), "-")
     ELSE Start(w, "attempt", [Idle EXCEPT
               !.pc = "a_best", !.a = a, !.used = Cardinality(Existing(a))])
  /\ UNCHANGED <<db, call, events>>

\* The `best` query, rule 1, then rule 2 on the count read before.
AttemptBest(w) ==
  LET r == req[w]
      d == GateDecision(r.a, BestPassed(r.a), r.used)
  IN  /\ r.pc = "a_best"
      /\ IF d # "allowed" THEN Respond(w, d, CreateResponse(d), "-")
         ELSE IF NeedsPendingCheck(r.a)
         THEN Running(w, [r EXCEPT !.pc = "a_pending"])
         ELSE Running(w, [r EXCEPT !.pc = "a_save"])
      /\ UNCHANGED <<db, budget, call, events>>

\* existing.filter(status='submitted').exists(), rule 3.
AttemptPending(w) ==
  LET r == req[w]
  IN  /\ r.pc = "a_pending"
      /\ IF PendingExists(r.a)
         THEN Respond(w, "PendingGrading", CreateResponse("PendingGrading"), "-")
         ELSE Running(w, [r EXCEPT !.pc = "a_save"])
      /\ UNCHANGED <<db, budget, call, events>>

\* serializer.save(..., attempt_number=attempts_used + 1): the INSERT.  A
\* key that is taken raises IntegrityError out of the handler (HTTP 500).
AttemptInsert(w, p) ==
  LET r == req[w]
      n == r.used + 1
  IN  /\ r.pc = "a_save"
      /\ IF SubmissionUnique(r.a, n)
         THEN /\ submissions' = [submissions EXCEPT ![r.a] = Append(@,
                   [attempt_number |-> n, status |-> "submitted", grade |-> NoGrade])]
              /\ Running(w, [r EXCEPT !.pc = "a_grade", !.answers = p,
                                      !.row = Len(submissions[r.a]) + 1])
         ELSE /\ Respond(w, "IntegrityError", 500, "-")
              /\ UNCHANGED submissions
      /\ UNCHANGED <<contents, assignments, progress, enrStatus, certificates, budget, call, events>>

\* The attempt of a student who answers the questions of the assignment.
AttemptSave(w, p) ==
  /\ req[w].pc = "a_save"
  /\ p \in PayloadsFor(req[w].a)
  /\ AttemptInsert(w, p)

\* The attempt of a client that sends a malformed payload: the serializer
\* validates `answers` as JSON only, so the INSERT is made as for any payload.
AttemptSaveMalformed(w, p) ==
  /\ req[w].pc = "a_save"
  /\ p \in MalformedFor(req[w].a)
  /\ AttemptInsert(w, p)

\* The auto-grader and submission.save(update_fields=['grade', 'status']).
\* An exception of the grader leaves the handler (HTTP 500) with the row as
\* it was inserted.
AttemptGrade(w) ==
  LET r == req[w]
      t == AssignmentCfg[r.a].assignment_type
      percent == AutoGrade(Questions, t, r.a, Payloads[r.answers])
  IN  /\ r.pc = "a_grade"
      /\ IF GraderRaises(t, Payloads[r.answers])
         THEN /\ Respond(w, "TypeError", 500, "-")
              /\ UNCHANGED <<submissions, events>>
         ELSE /\ submissions' = [submissions EXCEPT ![r.a][r.row].grade = percent,
                                                   ![r.a][r.row].status = "graded"]
              /\ award_assignment_xp(r.a, "graded", percent)
              /\ Respond(w, "Created", CreateResponse("Created"), "-")
      /\ UNCHANGED <<contents, assignments, progress, enrStatus, certificates, budget, call>>

\* ------------------------------------------------------------------ completion
\* check_completion_and_issue_certificate, line 248: the status the
\* in-memory enrollment has after the test on progress (tenths of a percent).
NewStatusFromProgress(progress_now, status) ==
  IF progress_now >= 1000 THEN "completed" ELSE "active"

NewStatus(progress_now, status) ==
  IF progress_now >= 1000 /\ status # "completed" THEN "completed" ELSE status

\* What the caller does with the result of the completion check:
\* ret is "true", "false" or "raise" (IntegrityError out of Certificate.create).
\*   mark_complete and grade call it unguarded: the exception leaves the
\*     handler (HTTP 500);
\*   refresh_completion and rate call it inside try/except Exception: pass,
\*     which also skips the refresh_from_db that follows it in the try block.
\*   mark_complete awards the course completion if the check returned
\*     True; grade awards the assignment if the submission it loaded was
\*     not graded.
CCReturn(w, ret) ==
  LET r == req[w]
  IN  CASE r.op = "mark_complete" ->
             IF ret = "raise"
             THEN Respond(w, "IntegrityError", 500, ret) /\ UNCHANGED events
             ELSE /\ Respond(w, "Content marked as completed", 200, ret)
                  /\ IF ret = "true" THEN CourseCompleted ELSE UNCHANGED events
        [] r.op = "grade" ->
             IF ret = "raise"
             THEN Respond(w, "IntegrityError", 500, ret) /\ UNCHANGED events
             ELSE /\ Respond(w, "Graded", 200, ret)
                  /\ IF r.was_ungraded
                     THEN award_assignment_xp(r.a, "graded", r.grade)
                     ELSE UNCHANGED events
        [] r.op = "refresh" ->
             /\ IF ret = "raise"
                THEN Respond(w, IF r.before # "completed" /\ r.status = "completed"
                                THEN "updated 1" ELSE "updated 0", 200, ret)
                ELSE Running(w, [r EXCEPT !.pc = "rf_refresh", !.ret = ret])
             /\ UNCHANGED events
        [] r.op = "rate" ->
             /\ IF ret = "raise" THEN Respond(w, "Rated", 200, ret)
                ELSE Running(w, [r EXCEPT !.pc = "rate_refresh", !.ret = ret])
             /\ UNCHANGED events

\* progress = self.calculate_progress() and the test of line 248.
CCProgressAnyStatus(w) ==
  LET r == req[w]
  IN  /\ r.pc = "cc_progress"
      /\ IF calculate_progress >= 1000
         THEN Running(w, [r EXCEPT !.pc = "cc_save", !.status = "completed"])
              /\ UNCHANGED events
         ELSE CCReturn(w, "false")
      /\ UNCHANGED <<db, budget, call>>

CCProgress(w) ==
  LET r == req[w]
      ns == NewStatus(calculate_progress, r.status)
  IN  /\ r.pc = "cc_progress"
      /\ IF ns # r.status
         THEN Running(w, [r EXCEPT !.pc = "cc_save", !.status = ns])
              /\ UNCHANGED events
         ELSE CCReturn(w, "false")
      /\ UNCHANGED <<db, budget, call>>

\* self.save(): the in-memory status is written to the row.
CCSave(w) ==
  LET r == req[w]
  IN  /\ r.pc = "cc_save"
      /\ enrStatus' = r.status
      /\ StatusSaved(r.op, r.status)
      /\ Running(w, [r EXCEPT !.pc = "cc_exists"])
      /\ UNCHANGED <<contents, assignments, progress, submissions, certificates, budget, call>>

\* certificate_exists = Certificate.objects.filter(...).exists()
CCExists(w) ==
  LET r == req[w]
  IN  /\ r.pc = "cc_exists"
      /\ IF CertificateExists("s1")
         THEN CCReturn(w, "false")
         ELSE Running(w, [r EXCEPT !.pc = "cc_create"]) /\ UNCHANGED events
      /\ UNCHANGED <<db, budget, call>>

\* Certificate.objects.create(...), then return True.
CCCreate(w, code) ==
  LET r == req[w]
  IN  /\ r.pc = "cc_create"
      /\ code \in Codes
      /\ IF CertificateUnique("s1")
         THEN /\ certificates' = Append(certificates,
                   [student |-> "s1", verification_code |-> code])
              /\ CCReturn(w, "true")
         ELSE /\ CCReturn(w, "raise")
              /\ UNCHANGED certificates
      /\ UNCHANGED <<contents, assignments, progress, enrStatus, submissions, budget, call>>


\* ------------------------------------------------------------------ manual grade
\* Who posts to the grade action: the teacher of the course, an admin, or a
\* teacher of another course.
Graders == {"teacher", "admin", "other_teacher"}

\* A posted grade that Decimal() cannot parse, such as "abc".
NotDecimal == 0 - 1

\* AssignmentSubmissionViewSet.grade: get_object() looks the submission up
\* in get_queryset(), which holds no submission of this course for a
\* teacher of another course (404); was_ungraded is taken from the copy
\* that was loaded.
GradeBegin(w, actor, k, g) ==
  /\ Begin(w)
  /\ k \in Rows
  /\ IF actor = "other_teacher"
     THEN RespondAs(w, "grade", "NotFound", 404, "-")
     ELSE Start(w, "grade", [Idle EXCEPT
            !.pc = "g_save", !.a = k[1], !.row = k[2],
            !.grade = IF g = NotDecimal THEN NotDecimal ELSE g * 100,
            !.was_ungraded = (submissions[k[1]][k[2]].status # "graded")])
  /\ UNCHANGED <<db, call, events>>

\* grade_submission: self.grade = grade; self.status = 'graded'; self.save().
\* DecimalField.to_python raises ValidationError for a value that is not a
\* decimal number: the exception leaves the handler (HTTP 500), nothing is
\* written.
GradeSave(w) ==
  LET r == req[w]
  IN  /\ r.pc = "g_save"
      /\ IF r.grade = NotDecimal
         THEN /\ Respond(w, "ValidationError", 500, "-")
              /\ UNCHANGED submissions
         ELSE /\ submissions' = [submissions EXCEPT ![r.a][r.row].grade = r.grade,
                                                   ![r.a][r.row].status = "graded"]
              /\ Running(w, [r EXCEPT !.pc = "g_enrollment"])
      /\ UNCHANGED <<contents, assignments, progress, enrStatus, certificates, budget, call, events>>

\* self.enrollment: the related Enrollment row is fetched on first access.
GradeEnrollment(w) ==
  LET r == req[w]
  IN  /\ r.pc = "g_enrollment"
      /\ Running(w, [r EXCEPT !.pc = "cc_progress", !.status = enrStatus])
      /\ UNCHANGED <<db, budget, call, events>>

\* ------------------------------------------------------------------ mark_complete
\* ContentViewSet.mark_complete up to Enrollment.objects.get(...).
MarkCompleteBegin(w, u, c) ==
  /\ Begin(w)
  /\ c \in contents
  /\ IF u \notin Enrolled
     THEN RespondAs(w, "mark_complete", "NotEnrolled", 400, "-")
     ELSE Start(w, "mark_complete", [Idle EXCEPT
               !.pc = "mc_progress", !.content = c, !.status = enrStatus])
  /\ UNCHANGED <<db, call, events>>

\* ContentProgress.objects.get_or_create(..., defaults={'completed': True}).
\* Rows are only ever created here, completed, so the branch for a row that
\* is not completed is never taken.
MarkCompleteProgress(w) ==
  LET r == req[w]
  IN  /\ r.pc = "mc_progress"
      /\ progress' = progress \cup {r.content}
      /\ IF r.content \notin progress THEN ContentCompleted(r.content)
         ELSE UNCHANGED events
      /\ Running(w, [r EXCEPT !.pc = "cc_progress"])
      /\ UNCHANGED <<contents, assignments, enrStatus, submissions, certificates, budget, call>>

\* get_or_create as the two statements it makes.  First self.get(**kwargs):
\* a row that exists is returned with created = False (it is completed, so
\* nothing is awarded).
MarkCompleteGet(w) ==
  LET r == req[w]
  IN  /\ r.pc = "mc_progress"
      /\ IF r.content \in progress
         THEN Running(w, [r EXCEPT !.pc = "cc_progress"])
         ELSE Running(w, [r EXCEPT !.pc = "mc_create"])
      /\ UNCHANGED <<db, budget, call, events>>

\* Then self.create(**params) in a savepoint: the row is inserted, created =
\* True and the content XP is awarded; on IntegrityError get_or_create
\* returns the row that exists with created = False.
MarkCompleteCreate(w) ==
  LET r == req[w]
  IN  /\ r.pc = "mc_create"
      /\ IF ContentProgressUnique(r.content)
         THEN /\ progress' = progress \cup {r.content}
              /\ ContentCompleted(r.content)
         ELSE UNCHANGED <<progress, events>>
      /\ Running(w, [r EXCEPT !.pc = "cc_progress"])
      /\ UNCHANGED <<contents, assignments, enrStatus, submissions, certificates, budget, call>>

\* ------------------------------------------------------------------ refresh_completion
\* EnrollmentViewSet.refresh_completion: the loop over the user's enrollments.
RefreshBegin(w, u) ==
  /\ Begin(w)
  /\ IF u \notin Enrolled
     THEN RespondAs(w, "refresh", "updated 0", 200, "-")
     ELSE Start(w, "refresh", [Idle EXCEPT
               !.pc = "cc_progress", !.status = enrStatus, !.before = enrStatus])
  /\ UNCHANGED <<db, call, events>>

\* e.refresh_from_db(fields=["status"]) and the count of the response.
RefreshReload(w) ==
  LET r == req[w]
  IN  /\ r.pc = "rf_refresh"
      /\ Respond(w, IF r.before # "completed" /\ enrStatus = "completed"
                    THEN "updated 1" ELSE "updated 0", 200, r.ret)
      /\ UNCHANGED <<db, budget, call, events>>

\* ------------------------------------------------------------------ rate
\* CourseViewSet.rate up to the test of enrollment.status.
RateBegin(w, u) ==
  /\ Begin(w)
  /\ IF u \notin Enrolled
     THEN RespondAs(w, "rate", "NotEnrolled", 400, "-")
     ELSE IF enrStatus = "completed"
     THEN RespondAs(w, "rate", "Rated", 200, "-")
     ELSE Start(w, "rate", [Idle EXCEPT
               !.pc = "cc_progress", !.status = enrStatus])
  /\ UNCHANGED <<db, call, events>>

\* enrollment.refresh_from_db(fields=["status"]) and the second test.
RateReload(w) ==
  LET r == req[w]
  IN  /\ r.pc = "rate_refresh"
      /\ IF enrStatus # "completed"
         THEN Running(w, [r EXCEPT !.pc = "rate_certificate", !.status = enrStatus])
         ELSE Respond(w, "Rated", 200, r.ret)
      /\ UNCHANGED <<db, budget, call, events>>

\* has_certificate = Certificate.objects.filter(...).exists()
RateCertificate(w) ==
  LET r == req[w]
  IN  /\ r.pc = "rate_certificate"
      /\ Running(w, [r EXCEPT !.pc = "rate_progress",
                              !.has_certificate = CertificateExists("s1")])
      /\ UNCHANGED <<db, budget, call, events>>

\* progress_now = float(enrollment.calculate_progress()) and the fallback test.
RateProgress(w) ==
  LET r == req[w]
  IN  /\ r.pc = "rate_progress"
      /\ IF r.has_certificate \/ calculate_progress >= 1000
         THEN Running(w, [r EXCEPT !.pc = "rate_save", !.status = "completed"])
         ELSE Respond(w, "NotCompleted", 400, r.ret)
      /\ UNCHANGED <<db, budget, call, events>>

\* enrollment.save(update_fields=['status'])
RateSave(w) ==
  LET r == req[w]
  IN  /\ r.pc = "rate_save"
      /\ enrStatus' = r.status
      /\ StatusSaved(r.op, r.status)
      /\ Respond(w, "Rated", 200, r.ret)
      /\ UNCHANGED <<contents, assignments, progress, submissions, certificates, budget, call>>

\* ------------------------------------------------------------------ specification
Next ==
  \/ \E c \in ContentIds : AddContent(c)
  \/ \E a \in Assignments : AddAssignment(a)
  \/ \E w \in Workers, u \in Students, a \in Assignments : AttemptBegin(w, u, a)
  \/ \E w \in Workers : AttemptBest(w)
  \/ \E w \in Workers : AttemptPending(w)
  \/ \E w \in Workers, p \in DOMAIN Payloads : AttemptSave(w, p)
  \/ \E w \in Workers : AttemptGrade(w)
  \/ \E w \in Workers, k \in Rows, g \in ManualGrades : GradeBegin(w, "teacher", k, g)
  \/ \E w \in Workers : GradeSave(w)
  \/ \E w \in Workers : GradeEnrollment(w)
  \/ \E w \in Workers, u \in Students, c \in ContentIds : MarkCompleteBegin(w, u, c)
  \/ \E w \in Workers : MarkCompleteProgress(w)
  \/ \E w \in Workers, u \in Students : RefreshBegin(w, u)
  \/ \E w \in Workers : RefreshReload(w)
  \/ \E w \in Workers, u \in Students : RateBegin(w, u)
  \/ \E w \in Workers : RateReload(w)
  \/ \E w \in Workers : RateCertificate(w)
  \/ \E w \in Workers : RateProgress(w)
  \/ \E w \in Workers : RateSave(w)
  \/ \E w \in Workers : CCProgress(w)
  \/ \E w \in Workers : CCSave(w)
  \/ \E w \in Workers : CCExists(w)
  \/ \E w \in Workers, code \in Codes : CCCreate(w, code)

Spec == Init /\ [][Next]_vars

\* The submission handlers alone: attempts and manual grades (which run the
\* completion check) on the assignments of the course.  No other handler
\* reads or writes AssignmentSubmission rows.
InitGate ==
  /\ contents = {}
  /\ assignments = {}
  /\ progress = {}
  /\ enrStatus = "active"
  /\ submissions = [a \in Assignments |-> <<>>]
  /\ certificates = <<>>
  /\ req = [w \in Workers |-> Idle]
  /\ last = Response("none", "-", 0, "-")
  /\ budget = MaxGateRequests
  /\ call = NoCall
  /\ events = NoEvents

NextGate ==
  \/ \E a \in Assignments : AddAssignment(a)
  \/ \E w \in Workers, u \in Students, a \in Assignments : AttemptBegin(w, u, a)
  \/ \E w \in Workers : AttemptBest(w)
  \/ \E w \in Workers : AttemptPending(w)
  \/ \E w \in Workers, p \in DOMAIN Payloads : AttemptSave(w, p)
  \/ \E w \in Workers : AttemptGrade(w)
  \/ \E w \in Workers, k \in Rows, g \in ManualGrades : GradeBegin(w, "teacher", k, g)
  \/ \E w \in Workers : GradeSave(w)
  \/ \E w \in Workers : GradeEnrollment(w)
  \/ \E w \in Workers : CCProgress(w)
  \/ \E w \in Workers : CCSave(w)
  \/ \E w \in Workers : CCExists(w)
  \/ \E w \in Workers, code \in Codes : CCCreate(w, code)

SpecGate == InitGate /\ [][NextGate]_vars


\* The grade action with every grader and posted grade, next to the
\* attempts that create the submissions it grades.
InitManual ==
  /\ contents = {}
  /\ assignments = {}
  /\ progress = {}
  /\ enrStatus = "active"
  /\ submissions = [a \in Assignments |-> <<>>]
  /\ certificates = <<>>
  /\ req = [w \in Workers |-> Idle]
  /\ last = Response("none", "-", 0, "-")
  /\ budget = MaxManualRequests
  /\ call = NoCall
  /\ events = NoEvents

NextManual ==
  \/ \E a \in Assignments : AddAssignment(a)
  \/ \E w \in Workers, a \in Assignments : AttemptBegin(w, "s1", a)
  \/ \E w \in Workers : AttemptBest(w)
  \/ \E w \in Workers : AttemptPending(w)
  \/ \E w \in Workers, p \in DOMAIN Payloads : AttemptSave(w, p)
  \/ \E w \in Workers : AttemptGrade(w)
  \/ \E w \in Workers, actor \in Graders, k \in Rows,
        g \in ManualGrades \cup {NotDecimal} : GradeBegin(w, actor, k, g)
  \/ \E w \in Workers : GradeSave(w)
  \/ \E w \in Workers : GradeEnrollment(w)
  \/ \E w \in Workers : CCProgress(w)
  \/ \E w \in Workers : CCSave(w)
  \/ \E w \in Workers : CCExists(w)
  \/ \E w \in Workers, code \in Codes : CCCreate(w, code)

SpecManual == InitManual /\ [][NextManual]_vars

\* ------------------------------------------------------------------ submission update
\* UpdateModelMixin.update / partial_update of AssignmentSubmissionViewSet
\* (PUT, PATCH .../submissions/<pk>/): get_object() loads the row; the
\* student's own submissions are in get_queryset().
UpdateBegin(w, k) ==
  /\ Begin(w)
  /\ k \in Rows
  /\ Start(w, "update", [Idle EXCEPT
            !.pc = "u_save", !.a = k[1], !.row = k[2],
            !.status = submissions[k[1]][k[2]].status,
            !.grade = submissions[k[1]][k[2]].grade])
  /\ UNCHANGED <<db, call, events>>

\* serializer.save() -> ModelSerializer.update -> instance.save(): grade and
\* status are read-only for the serializer, and save() without update_fields
\* writes every column of the row from the instance that was loaded.
UpdateSave(w) ==
  LET r == req[w]
  IN  /\ r.pc = "u_save"
      /\ submissions' = [submissions EXCEPT ![r.a][r.row].grade = r.grade,
                                            ![r.a][r.row].status = r.status]
      /\ Respond(w, "Updated", 200, "-")
      /\ UNCHANGED <<contents, assignments, progress, enrStatus, certificates, budget, call, events>>

\* Attempts, manual grades and updates of the submissions.
InitUpdate ==
  /\ contents = {}
  /\ assignments = {}
  /\ progress = {}
  /\ enrStatus = "active"
  /\ submissions = [a \in Assignments |-> <<>>]
  /\ certificates = <<>>
  /\ req = [w \in Workers |-> Idle]
  /\ last = Response("none", "-", 0, "-")
  /\ budget = MaxUpdateRequests
  /\ call = NoCall
  /\ events = NoEvents

NextUpdate ==
  \/ \E a \in Assignments : AddAssignment(a)
  \/ \E w \in Workers, a \in Assignments : AttemptBegin(w, "s1", a)
  \/ \E w \in Workers : AttemptBest(w)
  \/ \E w \in Workers : AttemptPending(w)
  \/ \E w \in Workers, p \in DOMAIN Payloads : AttemptSave(w, p)
  \/ \E w \in Workers : AttemptGrade(w)
  \/ \E w \in Workers, k \in Rows, g \in ManualGrades : GradeBegin(w, "teacher", k, g)
  \/ \E w \in Workers : GradeSave(w)
  \/ \E w \in Workers : GradeEnrollment(w)
  \/ \E w \in Workers, k \in Rows : UpdateBegin(w, k)
  \/ \E w \in Workers : UpdateSave(w)
  \/ \E w \in Workers : CCProgress(w)
  \/ \E w \in Workers : CCSave(w)
  \/ \E w \in Workers : CCExists(w)
  \/ \E w \in Workers, code \in Codes : CCCreate(w, code)

SpecUpdate == InitUpdate /\ [][NextUpdate]_vars

\* ------------------------------------------------------------------ payloads
\* Attempts with well-formed and malformed answers payloads.
InitPayload ==
  /\ contents = {}
  /\ assignments = {}
  /\ progress = {}
  /\ enrStatus = "active"
  /\ submissions = [a \in Assignments |-> <<>>]
  /\ certificates = <<>>
  /\ req = [w \in Workers |-> Idle]
  /\ last = Response("none", "-", 0, "-")
  /\ budget = MaxPayloadRequests
  /\ call = NoCall
  /\ events = NoEvents

NextPayload ==
  \/ \E a \in Assignments : AddAssignment(a)
  \/ \E w \in Workers, a \in Assignments : AttemptBegin(w, "s1", a)
  \/ \E w \in Workers : AttemptBest(w)
  \/ \E w \in Workers : AttemptPending(w)
  \/ \E w \in Workers, p \in DOMAIN Payloads : AttemptSave(w, p)
  \/ \E w \in Workers, p \in DOMAIN Payloads : AttemptSaveMalformed(w, p)
  \/ \E w \in Workers : AttemptGrade(w)

SpecPayload == InitPayload /\ [][NextPayload]_vars

\* ------------------------------------------------------------------ content completion
\* mark_complete requests of the enrolled student on the contents of the
\* course, with the awards observed.
InitContent ==
  /\ contents = {}
  /\ assignments = {}
  /\ progress = {}
  /\ enrStatus = "active"
  /\ submissions = [a \in Assignments |-> <<>>]
  /\ certificates = <<>>
  /\ req = [w \in Workers |-> Idle]
  /\ last = Response("none", "-", 0, "-")
  /\ budget = MaxContentRequests
  /\ call = NoCall
  /\ events = ZeroEvents

NextContent ==
  \/ \E c \in ContentIds : AddContent(c)
  \/ \E a \in Assignments : AddAssignment(a)
  \/ \E w \in Workers, c \in ContentIds : MarkCompleteBegin(w, "s1", c)
  \/ \E w \in Workers : MarkCompleteGet(w)
  \/ \E w \in Workers : MarkCompleteCreate(w)
  \/ \E w \in Workers : CCProgress(w)
  \/ \E w \in Workers : CCSave(w)
  \/ \E w \in Workers : CCExists(w)
  \/ \E w \in Workers, code \in Codes : CCCreate(w, code)

SpecContent == InitContent /\ [][NextContent]_vars

\* All handlers on the one course, with the awards observed.
InitEvents ==
  /\ contents = {}
  /\ assignments = {}
  /\ progress = {}
  /\ enrStatus = "active"
  /\ submissions = [a \in Assignments |-> <<>>]
  /\ certificates = <<>>
  /\ req = [w \in Workers |-> Idle]
  /\ last = Response("none", "-", 0, "-")
  /\ budget = MaxRequests
  /\ call = NoCall
  /\ events = ZeroEvents

SpecEvents == InitEvents /\ [][Next]_vars

\* Attempts and manual grades by the course teacher, with the awards observed.
SpecAwards == InitEvents /\ [][NextGate]_vars

\* ------------------------------------------------------------------ course edits
\* The teacher edits the course between the requests of the student.
Quiet == \A w \in Workers : req[w].pc = "idle"

\* ContentViewSet.perform_destroy: instance.delete() removes the Content row
\* and, by on_delete=CASCADE, the ContentProgress rows of that content.
DeleteContent(c) ==
  /\ Quiet
  /\ c \in contents
  /\ contents' = contents \ {c}
  /\ progress' = progress \ {c}
  /\ UNCHANGED <<assignments, enrStatus, submissions, certificates, req, last, budget, call, events>>

\* ContentViewSet.perform_update with "module" in the body: `module` is a
\* writable field of ContentSerializer, so serializer.save() moves the
\* Content row to the module posted, here a module of another course.  The
\* ContentProgress rows of the content stay with their enrollments.
MoveContent(c) ==
  /\ Quiet
  /\ c \in contents
  /\ contents' = contents \ {c}
  /\ UNCHANGED <<assignments, progress, enrStatus, submissions, certificates, req, last, budget, call, events>>

\* A new Content row gets a new id: the id of a row that was moved away
\* (and may have ContentProgress rows) is not given again.
AddNewContent(c) ==
  /\ c \notin progress
  /\ AddContent(c)

\* AssignmentViewSet destroy: the Assignment row and, by on_delete=CASCADE,
\* its submissions are removed.
DeleteAssignment(a) ==
  /\ Quiet
  /\ a \in assignments
  /\ assignments' = assignments \ {a}
  /\ submissions' = [submissions EXCEPT ![a] = <<>>]
  /\ UNCHANGED <<contents, progress, enrStatus, certificates, req, last, budget, call, events>>

InitCourse ==
  /\ contents = {}
  /\ assignments = {}
  /\ progress = {}
  /\ enrStatus = "active"
  /\ submissions = [a \in Assignments |-> <<>>]
  /\ certificates = <<>>
  /\ req = [w \in Workers |-> Idle]
  /\ last = Response("none", "-", 0, "-")
  /\ budget = MaxCourseRequests
  /\ call = NoCall
  /\ events = NoEvents

NextCourse ==
  \/ \E c \in ContentIds : AddNewContent(c)
  \/ \E c \in ContentIds : DeleteContent(c)
  \/ \E c \in ContentIds : MoveContent(c)
  \/ \E a \in Assignments : AddAssignment(a)
  \/ \E a \in Assignments : DeleteAssignment(a)
  \/ \E w \in Workers, c \in ContentIds : MarkCompleteBegin(w, "s1", c)
  \/ \E w \in Workers : MarkCompleteProgress(w)
  \/ \E w \in Workers, a \in Assignments : AttemptBegin(w, "s1", a)
  \/ \E w \in Workers : AttemptBest(w)
  \/ \E w \in Workers : AttemptPending(w)
  \/ \E w \in Workers, p \in DOMAIN Payloads : AttemptSave(w, p)
  \/ \E w \in Workers : AttemptGrade(w)
  \/ \E w \in Workers : CCProgress(w)
  \/ \E w \in Workers : CCSave(w)
  \/ \E w \in Workers : CCExists(w)
  \/ \E w \in Workers, code \in Codes : CCCreate(w, code)

SpecCourse == InitCourse /\ [][NextCourse]_vars

\* ------------------------------------------------------------------ grader calls
\* The auto-graders as functions of the AssignmentQuestion table and the
\* answers payload: every call of a bounded family of configurations and
\* payloads is made once and its result kept.

T_A_Loop_padded == <<" ","A"," ","L","o","o","p"," ">>
T_blank == <<" ">>
T_Stack == <<"S","t","a","c","k">>
T_no_recursion ==
  <<"b","a","s","e"," ","c","a","s","e",","," ","s","t","a","c","k",","," ",
    "g","o","t","o">>
T_answer_bad ==
  <<"g","o","t","o"," ","a"," ","l","o","o","p",":"," ",
    "r","e","c","u","r","s","i","o","n",","," ","s","t","a","c","k">>

\* The mcq questions q1 and q2 of a1 with points p1, p2 and the options of
\* q1 flagged is_correct.
McqTable(p1, p2, c1) ==
  [q1 |-> [Questions.q1 EXCEPT !.points = p1, !.correct = c1],
   q2 |-> [Questions.q2 EXCEPT !.points = p2],
   q3 |-> Questions.q3]

\* AssignmentQuestion.points is an IntegerField without validators.
McqTables ==
  {McqTable(p1, p2, c1) : p1 \in {0 - 5, 0, 5, 50}, p2 \in {0 - 5, 0, 5, 50},
                          c1 \in {{}, {"o1"}, {"o1", "o2"}}}

\* Entries of an mcq payload: selections for q1 and q2 (empty, exact, subset,
\* superset, repeated ids), an entry for a qa question and one for a
\* question id that does not exist.
McqEntries ==
  {Ans("q1", sel, T_empty) :
     sel \in {<<>>, <<"o1">>, <<"o2">>, <<"o1", "o2">>, <<"o1", "o1">>,
              <<"o1", "o2", "o3">>}}
  \cup {Ans("q2", sel, T_empty) : sel \in {<<>>, <<"o3">>, <<"o3", "o4">>}}
  \cup {Ans("q3", <<>>, T_answer_full), Ans("q9", <<"o1">>, T_empty)}

\* Payloads of at most two entries.
McqPayloads ==
  {<<>>} \cup {<<e>> : e \in McqEntries}
  \cup {<<e, f>> : e \in McqEntries, f \in McqEntries}

\* The qa question q3 of a2 with its points and keyword configuration, and
\* a second qa question q4 without keywords.
QaTable(p3, p4, acceptable, required, opt, neg) ==
  [q1 |-> Questions.q1,
   q2 |-> Questions.q2,
   q3 |-> [Questions.q3 EXCEPT !.points = p3, !.acceptable_answers = acceptable,
                               !.required_keywords = required, !.keywords = opt,
                               !.negative_keywords = neg],
   q4 |-> [Questions.q3 EXCEPT !.points = p4, !.acceptable_answers = NoKw,
                               !.required_keywords = NoKw, !.keywords = NoKw,
                               !.negative_keywords = NoKw]]

\* The keyword lists are JSON lists as a teacher may store them: not
\* trimmed, mixed case, with blank and repeated entries.
QaTables ==
  {QaTable(p[1], p[2], acceptable, required, opt, neg) :
     p \in {<<20, 0>>, <<20, 0 - 20>>, <<0, 0>>, <<0, 0 - 20>>},
     acceptable \in {NoKw, <<T_a_loop>>, <<T_A_Loop_padded>>, <<T_blank>>},
     required \in {NoKw, <<T_recursion>>, <<T_recursion, T_stack>>, <<T_blank>>},
     opt \in {NoKw, <<T_base_case, T_stack>>, <<T_Stack, T_stack, T_base_case>>,
              <<T_blank, T_stack>>, <<T_base_case, T_stack, T_recursion>>},
     neg \in {NoKw, <<T_goto>>, <<T_goto, T_a_loop>>, <<T_blank>>}}

QaTexts ==
  {T_empty, T_answer_half, T_answer_full, T_A_Loop_padded, T_no_recursion,
   T_answer_bad}

QaPayloads ==
  {<<Ans("q3", <<>>, t)>> : t \in QaTexts}
  \cup {<<Ans("q3", <<>>, t), Ans("q4", <<>>, T_answer_half)>> : t \in QaTexts}

\* The grader calls that have not run yet.
GraderCalls ==
  {[fn |-> "grade", a |-> a, qt |-> qt, answers |-> answers,
    credits |-> <<>>, percent |-> NoGrade] :
     a \in {"a1"}, qt \in McqTables, answers \in McqPayloads}
  \cup {[fn |-> "grade", a |-> a, qt |-> qt, answers |-> answers,
         credits |-> <<>>, percent |-> NoGrade] :
          a \in {"a2"}, qt \in QaTables, answers \in QaPayloads}

InitGrader ==
  /\ contents = {}
  /\ assignments = Assignments
  /\ progress = {}
  /\ enrStatus = "active"
  /\ submissions = [a \in Assignments |-> <<>>]
  /\ certificates = <<>>
  /\ req = [w \in Workers |-> Idle]
  /\ last = Response("none", "-", 0, "-")
  /\ budget = 0
  /\ call \in GraderCalls
  /\ events = NoEvents

\* The mcq branch of perform_create on the call's table and payload: the
\* points each entry adds to earned_points, and the percent.
RunMcqGrader ==
  /\ call.fn = "grade"
  /\ AssignmentCfg[call.a].assignment_type = "mcq"
  /\ call' = [call EXCEPT
       !.fn = "graded",
       !.credits = [i \in 1..Len(call.answers) |->
                      McqEarned(call.qt, call.a, call.answers[i])],
       !.percent = McqPercent(call.qt, call.a, call.answers)]
  /\ UNCHANGED <<db, req, last, budget, events>>

\* The qa branch of perform_create: the credit of each entry (in units of
\* 1/Scale point) and the percent.
RunQaGrader ==
  /\ call.fn = "grade"
  /\ AssignmentCfg[call.a].assignment_type = "qa"
  /\ call' = [call EXCEPT
       !.fn = "graded",
       !.credits = [i \in 1..Len(call.answers) |->
                      QaEarned(call.qt, call.a, call.answers[i])],
       !.percent = QaPercent(call.qt, call.a, call.answers)]
  /\ UNCHANGED <<db, req, last, budget, events>>

SpecGrader == InitGrader /\ [][RunMcqGrader \/ RunQaGrader]_vars


\* ------------------------------------------------------------------ progress calls
\* Enrollment.calculate_progress as a function of the rows it counts: it is
\* called once in every database of a bounded family.

\* Content rows of a course of up to four items.
CourseContentIds == {"c1", "c2", "c3", "c4"}

\* AssignmentSubmission rows as the handlers leave them: not yet graded
\* (grade NULL), or graded.
SubmissionRow(n, grade) ==
  [attempt_number |-> n,
   status |-> IF grade = NoGrade THEN "submitted" ELSE "graded",
   grade |-> grade]

RowGrades == {NoGrade, 5000, 6500, 10000}

SubmissionLists ==
  {<<>>} \cup {<<SubmissionRow(1, g)>> : g \in RowGrades}
  \cup {<<SubmissionRow(1, g), SubmissionRow(2, h)>> : g \in RowGrades, h \in RowGrades}

InitProgress ==
  /\ contents \in SUBSET CourseContentIds
  /\ assignments \in SUBSET Assignments
  /\ progress \in SUBSET contents
  /\ enrStatus = "active"
  /\ submissions \in [Assignments -> SubmissionLists]
  /\ \A a \in Assignments \ assignments : submissions[a] = <<>>
  /\ certificates = <<>>
  /\ req = [w \in Workers |-> Idle]
  /\ last = Response("none", "-", 0, "-")
  /\ budget = 0
  /\ call = [fn |-> "progress", out |-> NoGrade]
  /\ events = NoEvents

\* self.calculate_progress()
RunProgress ==
  /\ call.fn = "progress"
  /\ call' = [fn |-> "progressed", out |-> calculate_progress]
  /\ UNCHANGED <<db, req, last, budget, events>>

SpecProgress == InitProgress /\ [][RunProgress]_vars

\* ------------------------------------------------------------------ can_attempt
\* AssignmentSerializer.get_can_attempt next to the gate: the flag is
\* computed for an assignment in a database of a bounded family, then one
\* attempt request is made in that database.

\* The student's prior submissions of an assignment with max_attempts = 3.
AttemptLists ==
  SubmissionLists
  \cup {<<SubmissionRow(1, g), SubmissionRow(2, h), SubmissionRow(3, k)>> :
          g \in RowGrades, h \in RowGrades, k \in RowGrades}

get_can_attemptNoPending(a) ==
  LET used == Cardinality(Existing(a))
      already_passed == BestPassed(a)
  IN  used < AssignmentCfg[a].max_attempts /\ ~ already_passed

get_can_attempt(a) ==
  LET used == Cardinality(Existing(a))
      already_passed == BestPassed(a)
      pending_qa == AssignmentCfg[a].assignment_type = "qa" /\ PendingExists(a)
  IN  used < AssignmentCfg[a].max_attempts /\ ~ already_passed /\ ~ pending_qa

InitCanAttempt ==
  /\ contents = {}
  /\ assignments = Assignments
  /\ progress = {}
  /\ enrStatus = "active"
  /\ submissions \in [Assignments -> AttemptLists]
  /\ certificates = <<>>
  /\ req = [w \in Workers |-> Idle]
  /\ last = Response("none", "-", 0, "-")
  /\ budget = 1
  /\ \E a \in Assignments :
       /\ call = [fn |-> "can_attempt", a |-> a, used |-> 0, out |-> FALSE]
       /\ \A b \in Assignments \ {a} : submissions[b] = <<>>
  /\ events = NoEvents

\* The serializer answers attempts_used and can_attempt of the assignment.
RunCanAttempt ==
  /\ call.fn = "can_attempt"
  /\ call' = [call EXCEPT !.fn = "answered",
                          !.used = Cardinality(Existing(call.a)),
                          !.out = get_can_attempt(call.a)]
  /\ UNCHANGED <<db, req, last, budget, events>>

NextCanAttempt ==
  \/ RunCanAttempt
  \/ \E w \in Workers : call.fn = "answered" /\ AttemptBegin(w, "s1", call.a)
  \/ \E w \in Workers : AttemptBest(w)
  \/ \E w \in Workers : AttemptPending(w)
  \/ \E w \in Workers, p \in DOMAIN Payloads : AttemptSave(w, p)
  \/ \E w \in Workers : AttemptGrade(w)

SpecCanAttempt == InitCanAttempt /\ [][NextCanAttempt]_vars

\* ------------------------------------------------------------------ properties
CertificatesOf(student) ==
  {i \in 1..Len(certificates) : certificates[i].student = student}

\* C1: in every reachable state there is at most one Certificate per
\* (student, course), also when two completion checks for the same
\* enrollment run concurrently on stale copies of the enrollment.
C1_AtMostOneCertificate ==
  \A s \in Students : Cardinality(CertificatesOf(s)) <= 1

\* Two completion checks raced past the `exists` test; one created the
\* certificate and the INSERT of the other was refused.
C1_Witness ==
  /\ Cardinality(CertificatesOf("s1")) = 1
  /\ last.ret = "raise"

\* C2 (as claimed): the completion trigger whose Certificate INSERT is
\* refused by the uniqueness constraint completes normally.
C2_LoserCompletesNormally ==
  last.ret = "raise" => last.http = 200

\* C3: once Enrollment.status is 'completed' no step sets it back.
C3_StatusMonotonic ==
  [][enrStatus = "completed" => enrStatus' = "completed"]_vars

\* A passing submission of a completed enrollment was re-graded to a failing
\* grade: the completion check ran with progress below 100.
C3_Witness ==
  /\ enrStatus = "completed"
  /\ calculate_progress < 1000
  /\ last = Response("grade", "Graded", 200, "false")
  /\ \A k \in Rows : ~ Passes(k[1], submissions[k[1]][k[2]].grade)

AttemptNumbers(a) == {submissions[a][i].attempt_number : i \in Existing(a)}

\* C4: the attempt numbers of the rows of one (enrollment, assignment) are
\* exactly 1..n for n rows: no gap, no duplicate.
C4_AttemptsContiguous ==
  \A a \in Assignments : AttemptNumbers(a) = 1..Cardinality(Existing(a))

\* Two attempts computed the same attempt number and the second INSERT was
\* refused.
C4_Witness ==
  /\ last = Response("attempt", "IntegrityError", 500, "-")
  /\ Rows # {}

\* C5: an attempt whose `best` query finds a graded submission with
\* grade >= passing_grade is answered AlreadyPassed at that step, whatever
\* the number of attempts used, and writes no row.
C5_AlreadyPassedFirst ==
  [][\A w \in Workers :
       (req[w].pc = "a_best" /\ req'[w].pc # "a_best" /\ BestPassed(req[w].a))
       => /\ req'[w].pc = "idle"
          /\ last'.detail = "AlreadyPassed"
          /\ submissions' = submissions]_vars

\* AlreadyPassed was answered for an assignment whose attempts are used up.
C5_Witness ==
  /\ last.detail = "AlreadyPassed"
  /\ \E a \in Assignments :
       /\ Cardinality(Existing(a)) >= AssignmentCfg[a].max_attempts
       /\ BestPassed(a)

\* C6: the number of submissions of an (enrollment, assignment) never
\* exceeds max_attempts.
C6_AttemptLimit ==
  \A a \in Assignments : Cardinality(Existing(a)) <= AssignmentCfg[a].max_attempts

\* max_attempts = 3, passing_grade = 60: two failing graded attempts, a
\* third one made, the fourth answered NoAttemptsLeft.
C6_Witness ==
  /\ last.detail = "NoAttemptsLeft"
  /\ \E a \in Assignments :
       /\ Cardinality(Existing(a)) = 3
       /\ \A i \in Existing(a) :
            /\ submissions[a][i].status = "graded"
            /\ ~ Passes(a, submissions[a][i].grade)

Pending(a) == {i \in Existing(a) : submissions[a][i].status = "submitted"}

\* C7: a Q&A assignment never has a new submission created while another
\* of its submissions is still 'submitted' (at most one is ungraded at a
\* time), and only Q&A attempts make the pending test.
C7_PendingBlocksQa ==
  /\ \A a \in Assignments :
       AssignmentCfg[a].assignment_type = "qa" => Cardinality(Pending(a)) <= 1
  /\ \A w \in Workers :
       req[w].pc = "a_pending" => AssignmentCfg[req[w].a].assignment_type = "qa"

\* A Q&A attempt was answered PendingGrading while the earlier one is
\* still ungraded.
C7_Witness ==
  /\ last.detail = "PendingGrading"
  /\ Pending("a2") # {}

GateErrors == {"AlreadyPassed", "NoAttemptsLeft", "PendingGrading", "NotEnrolled"}

\* C8 (as claimed): an attempt the gate rejects is answered with an error,
\* not with a success status.
C8_GateErrorOutcome ==
  (last.op = "attempt" /\ last.detail \in GateErrors) => last.http \in 400..499

\* C9 (as claimed): every grade is unset or within [0, 100].
C9_GradeInRange ==
  \A k \in Rows :
    \/ submissions[k[1]][k[2]].grade = NoGrade
    \/ submissions[k[1]][k[2]].grade \in 0..10000

\* C10 (as claimed): the credit the auto-grader sums for a payload never
\* exceeds the points of the graded questions, and the percent is in [0, 100].
C10_AutoGradeBounded ==
  \A w \in Workers :
    req[w].pc = "a_grade" =>
      LET t == AssignmentCfg[req[w].a].assignment_type
          answers == Payloads[req[w].answers]
          total == SumPoints(Questions, QuestionsOf(Questions, req[w].a, t))
          earned == IF t = "mcq" THEN McqSum(Questions, req[w].a, answers) * Scale
                    ELSE QaSum(Questions, req[w].a, answers)
      IN  total > 0 =>
            /\ earned <= total * Scale
            /\ AutoGrade(Questions, t, req[w].a, answers) \in 0..10000

\* The call under examination is a finished call of the mcq (qa) grader.
GradedAs(t) == call.fn = "graded" /\ AssignmentCfg[call.a].assignment_type = t

\* C11: an entry for an mcq question of the assignment with points p and
\* correct-option set C earns p if its selected set S equals C and 0 for
\* every other S (empty, proper subset, superset); two questions worth 50
\* each with only question 1 answered with exactly its correct set give 50.00.
C11_McqExactSet ==
  GradedAs("mcq") =>
    /\ \A i \in 1..Len(call.answers) :
         LET ans == call.answers[i]
             S == SetOf(ans.selected_option_ids)
         IN  ans.question_id \in {"q1", "q2"} =>
               LET C == call.qt[ans.question_id].correct
                   p == call.qt[ans.question_id].points
               IN  /\ S = C => call.credits[i] = p
                   /\ S # C => call.credits[i] = 0
    /\ ( /\ call.qt.q1.points = 50
         /\ call.qt.q2.points = 50
         /\ Len(call.answers) = 1
         /\ call.answers[1].question_id = "q1"
         /\ SetOf(call.answers[1].selected_option_ids) = call.qt.q1.correct )
       => call.percent = 5000

\* Two questions worth 50 each; question 1 answered with exactly its two
\* correct options, question 2 with a superset of its correct option: 50.00.
C11_Witness ==
  /\ GradedAs("mcq")
  /\ call.qt.q1.points = 50 /\ call.qt.q2.points = 50
  /\ call.qt.q1.correct = {"o1", "o2"}
  /\ call.answers = <<Ans("q1", <<"o1", "o2">>, T_empty),
                      Ans("q2", <<"o3", "o4">>, T_empty)>>
  /\ call.credits = <<50, 0>>
  /\ call.percent = 5000

\* The entries of the graded qa payload that answer q3, the question whose
\* keyword configuration is drawn.
QaEntries == {i \in 1..Len(call.answers) : call.answers[i].question_id = "q3"}

\* The answer of entry i, lowercased and trimmed.
NormAnswer(i) == Strip(Lower(call.answers[i].text_answer))

\* The configured acceptable answers that entry i matches, compared
\* case-insensitively and trimmed.
AcceptableMatches(i) ==
  {k \in 1..Len(call.qt.q3.acceptable_answers) :
     Lower(Strip(call.qt.q3.acceptable_answers[k])) = NormAnswer(i)}

\* C12 (as claimed): an answer that, lowercased and trimmed, equals any
\* configured acceptable answer of a question with points p > 0 earns
\* exactly p, whatever the keyword lists contain.
C12_AnyAcceptableFullCredit ==
  GradedAs("qa") =>
    \A i \in QaEntries :
      (call.qt.q3.points > 0 /\ AcceptableMatches(i) # {})
      => call.credits[i] = Scale * call.qt.q3.points

\* C12 (amended): an answer that, lowercased and trimmed, equals a
\* configured acceptable answer that is not blank earns exactly p for p > 0,
\* whatever the keyword lists contain.  (norm_list drops blank entries, so
\* an empty answer never matches.)
C12_AcceptableFullCredit ==
  GradedAs("qa") =>
    \A i \in QaEntries :
      ( /\ call.qt.q3.points > 0
        /\ \E k \in AcceptableMatches(i) :
             Strip(call.qt.q3.acceptable_answers[k]) # <<>> )
      => call.credits[i] = Scale * call.qt.q3.points

\* " A Loop " answered to a question whose acceptable answer is stored as
\* " A Loop ": full credit although both required keywords are missing and
\* the negative keyword "a loop" occurs in the answer.
C12_Witness ==
  /\ GradedAs("qa")
  /\ call.qt.q3.points = 20
  /\ call.qt.q3.acceptable_answers = <<T_A_Loop_padded>>
  /\ call.qt.q3.required_keywords = <<T_recursion, T_stack>>
  /\ call.qt.q3.negative_keywords = <<T_goto, T_a_loop>>
  /\ call.answers = <<Ans("q3", <<>>, T_A_Loop_padded)>>
  /\ call.credits = <<Scale * 20>>
  /\ call.percent = 10000

\* Keyword k of a configured list occurs in the answer of entry i: the
\* keyword trimmed and lowercased, the answer lowercased.
KeywordFound(kws, k, i) ==
  Contains(Lower(call.answers[i].text_answer), Lower(Strip(kws[k])))

\* C13: when the answer matches no acceptable answer, the required-keyword
\* list is not empty and at least one required keyword is not a substring of
\* the answer, the question earns 0, even if every optional keyword occurs.
C13_RequiredMissingZero ==
  GradedAs("qa") =>
    \A i \in QaEntries :
      LET required == call.qt.q3.required_keywords
      IN  ( /\ AcceptableMatches(i) = {}
            /\ required # <<>>
            /\ \E k \in 1..Len(required) : ~ KeywordFound(required, k, i) )
          => call.credits[i] = 0

\* "base case, stack, goto" answered to a 20-point question that requires
\* "recursion" and "stack": both optional keywords occur, one required
\* keyword is missing, the credit is 0.
C13_Witness ==
  /\ GradedAs("qa")
  /\ call.qt.q3.points = 20
  /\ call.qt.q3.acceptable_answers = <<T_a_loop>>
  /\ call.qt.q3.required_keywords = <<T_recursion, T_stack>>
  /\ call.qt.q3.keywords = <<T_base_case, T_stack>>
  /\ call.qt.q3.negative_keywords = NoKw
  /\ call.answers = <<Ans("q3", <<>>, T_no_recursion)>>
  /\ call.credits = <<0>>

\* The distinct keywords of a configured list, trimmed and lowercased.
Normalized(kws) == {Lower(Strip(kws[k])) : k \in 1..Len(kws)}

\* The keywords of the set K that occur in the answer of entry i.
FoundIn(K, i) == {kw \in K : Contains(Lower(call.answers[i].text_answer), kw)}

\* clamp(optional_credit - penalty, 0, p) in units of 1/Scale point for the
\* optional keywords K and the negative keywords N:
\* optional_credit = p * |found K| / |K| (p for empty K), penalty = 0.2 * p
\* per negative keyword found.
ClampedCredit(p, K, N, i) ==
  LET optional_credit == IF K # {}
                         THEN (Scale * p * Cardinality(FoundIn(K, i))) \div Cardinality(K)
                         ELSE Scale * p
      penalty == (Scale \div 5) * p * Cardinality(FoundIn(N, i))
  IN  Max(0, Min(Scale * p, optional_credit - penalty))

\* No acceptable answer matches entry i and every required keyword occurs.
PassesRequired(i) ==
  /\ AcceptableMatches(i) = {}
  /\ \A k \in 1..Len(call.qt.q3.required_keywords) :
       KeywordFound(call.qt.q3.required_keywords, k, i)

\* C14 (as claimed): when no acceptable answer matches and all required
\* keywords are present, the credit is clamp(optional_credit - penalty, 0, p)
\* over the normalized, deduplicated optional and negative keyword lists.
C14_ClampedCreditAllEntries ==
  GradedAs("qa") =>
    \A i \in QaEntries :
      PassesRequired(i) =>
        call.credits[i] = ClampedCredit(call.qt.q3.points,
                                        Normalized(call.qt.q3.keywords),
                                        Normalized(call.qt.q3.negative_keywords), i)

\* C14 (amended): the same, with the optional and negative keyword lists
\* taken without their blank entries; p = 20, required [recursion],
\* optional [base case, stack], negative [goto] and the answer
\* "Recursion with a base case" give credit 10.
C14_ClampedCredit ==
  GradedAs("qa") =>
    \A i \in QaEntries :
      PassesRequired(i) =>
        /\ call.credits[i] = ClampedCredit(call.qt.q3.points,
                               Normalized(call.qt.q3.keywords) \ {T_empty},
                               Normalized(call.qt.q3.negative_keywords) \ {T_empty}, i)
        /\ ( /\ call.qt.q3.points = 20
             /\ call.qt.q3.required_keywords = <<T_recursion>>
             /\ call.qt.q3.keywords = <<T_base_case, T_stack>>
             /\ call.qt.q3.negative_keywords = <<T_goto>>
             /\ call.answers[i].text_answer = T_answer_half )
           => call.credits[i] = Scale * 10

\* The scenario has been graded: credit 10 of 20.
C14_Witness ==
  /\ GradedAs("qa")
  /\ call.qt.q3.points = 20
  /\ call.qt.q3.acceptable_answers = NoKw
  /\ call.qt.q3.required_keywords = <<T_recursion>>
  /\ call.qt.q3.keywords = <<T_base_case, T_stack>>
  /\ call.qt.q3.negative_keywords = <<T_goto>>
  /\ call.answers = <<Ans("q3", <<>>, T_answer_half)>>
  /\ call.credits = <<Scale * 10>>

\* C15 (as claimed): when the points of the assignment's gradable questions
\* (the mcq questions of an mcq assignment, the qa questions of a qa
\* assignment) sum to zero, the percent is 0 for every payload.
C15_ZeroTotalZeroPercent ==
  call.fn = "graded" =>
    LET t == AssignmentCfg[call.a].assignment_type
    IN  SumPoints(call.qt, QuestionsOf(call.qt, call.a, t)) = 0
        => call.percent = 0

\* The assignments of the course for which the enrollment has at least one
\* submission with status 'graded' and grade >= the assignment's own
\* passing_grade.
PassedAssignments ==
  {a \in assignments :
     \E i \in 1..Len(submissions[a]) :
       /\ submissions[a][i].status = "graded"
       /\ submissions[a][i].grade >= AssignmentCfg[a].passing_grade * 100}

\* C16: calculate_progress is 0 for a course without content items and
\* assignments, and otherwise 100 * (completed content + passed assignments)
\* / (content + assignments) rounded to one decimal (the result is kept in
\* tenths of a percent: it is the tenth nearest to the quotient); 4 of 4
\* content items completed and 1 unattempted assignment give 80.0.
C16_ProgressFormula ==
  call.fn = "progressed" =>
    LET total == Cardinality(contents) + Cardinality(assignments)
        done == Cardinality(progress) + Cardinality(PassedAssignments)
        err == call.out * total - 1000 * done
    IN  /\ total = 0 => call.out = 0
        /\ total > 0 => (2 * err <= total /\ 0 - total <= 2 * err)
        /\ ( /\ Cardinality(contents) = 4
             /\ progress = contents
             /\ Cardinality(assignments) = 1
             /\ \A a \in assignments : submissions[a] = <<>> )
           => call.out = 800

\* Four content items, all completed, and the assignment a2 (passing grade
\* 70) with graded attempts of 50.00 and 65.00 only: progress 80.0.
C16_Witness ==
  /\ call = [fn |-> "progressed", out |-> 800]
  /\ contents = CourseContentIds
  /\ progress = contents
  /\ assignments = {"a2"}
  /\ submissions["a2"] = <<SubmissionRow(1, 5000), SubmissionRow(2, 6500)>>

\* What the completion check of worker w has returned to its caller, once it
\* has returned: kept in the caller's locals, or in its response.
Returned(w) == IF req[w].pc = "idle" THEN last.ret ELSE req[w].ret

\* C17 (as claimed): check_completion_and_issue_certificate returns true
\* exactly when the call performs the transition to 'completed' (it found
\* progress >= 100 and a status other than 'completed' and saved the
\* status), also when a certificate exists by then; it returns false from
\* the test of line 248 otherwise.
C17_TrueIffTransition ==
  [][\A w \in Workers :
       /\ (req[w].pc = "cc_progress" /\ req'[w].pc \notin {"cc_progress", "cc_save"})
          => Returned(w)' = "false"
       /\ (req[w].pc = "cc_exists" /\ req'[w].pc \notin {"cc_exists", "cc_create"})
          => Returned(w)' = "true"
       /\ (req[w].pc = "cc_create" /\ req'[w].pc # "cc_create"
             /\ certificates' # certificates)
          => Returned(w)' = "true"]_vars

\* C18: a completion check made on an enrollment whose status is already
\* 'completed' ends at the test of line 248: it writes nothing (the status,
\* the certificates with their codes stay as they are) and returns false,
\* whatever the recomputed progress is.
C18_CompletedNoChange ==
  [][\A w \in Workers :
       (req[w].pc = "cc_progress" /\ req[w].status = "completed" /\ req'[w] # req[w])
       => /\ enrStatus' = enrStatus
          /\ certificates' = certificates
          /\ req'[w].pc \notin {"cc_save", "cc_exists", "cc_create"}
          /\ Returned(w)' = "false"]_vars

\* refresh_completion found the enrollment completed and left it so, after
\* an assignment added to the course had brought the progress below 100.
C18_Witness ==
  /\ last = Response("refresh", "updated 0", 200, "false")
  /\ enrStatus = "completed"
  /\ CertificateExists("s1")
  /\ calculate_progress < 1000
  /\ \A w \in Workers : req[w].pc = "idle"

\* C19 (as claimed): when the auto-grading of an attempt brings the
\* progress of the enrollment to 100, the enrollment is 'completed' and its
\* certificate exists when that attempt request ends.
C19_AutoGradeCompletes ==
  [][\A w \in Workers :
       ( /\ req[w].pc = "a_grade"
         /\ req'[w].pc = "idle"
         /\ calculate_progress < 1000
         /\ calculate_progress' >= 1000 )
       => /\ enrStatus' = "completed"
          /\ CertificateExists("s1")']_vars

\* C20 (as claimed): the grade action by the course teacher or an admin
\* always leaves the submission 'graded' with the posted grade (its write
\* is that, and it never ends before the write), a grade request that ends
\* with the progress at 100 and no other request in flight leaves the
\* enrollment 'completed' with its certificate, and a teacher of another
\* course changes nothing.
C20_ManualGrade ==
  [][\A w \in Workers :
       /\ (req[w].pc = "g_save" /\ req'[w] # req[w])
          => /\ submissions'[req[w].a][req[w].row].status = "graded"
             /\ submissions'[req[w].a][req[w].row].grade = req[w].grade
             /\ req'[w].pc = "g_enrollment"
       /\ ( /\ req[w].op = "grade"
            /\ req[w].pc \in {"cc_progress", "cc_exists", "cc_create"}
            /\ req'[w].pc = "idle"
            /\ \A v \in Workers \ {w} : req[v].pc = "idle"
            /\ calculate_progress >= 1000 )
          => /\ enrStatus' = "completed"
             /\ CertificateExists("s1")'
       /\ (budget' # budget /\ req' = req /\ last'.detail = "NotFound")
          => db' = db]_vars

\* C21: Submission.status is one-way: a row that is 'graded' is 'graded' after
\* every step of an attempt, grade, update or completion operation.
C21_StatusOneWay ==
  [][\A a \in Assignments : \A i \in Existing(a) :
       submissions[a][i].status = "graded" => submissions'[a][i].status = "graded"]_vars

\* C22 (as claimed): a mark_complete whose completion check ends, by its
\* return or by an exception, answers success and leaves the ContentProgress
\* row of its content completed.
C22_MarkCompleteSucceeds ==
  [][\A w \in Workers :
       (/\ req[w].op = "mark_complete"
        /\ req[w].pc \in {"cc_progress", "cc_exists", "cc_create"}
        /\ req'[w].pc = "idle")
       => /\ last'.http = 200
          /\ req[w].content \in progress']_vars

\* C23 (as claimed): an attempt whose answers payload is malformed is
\* rejected with a ValidationError and persists no Submission: the rows and
\* the attempt count of the assignment are unchanged.
C23_MalformedRejected ==
  [][\A w \in Workers :
       (req[w].pc = "a_save" /\ req'[w].pc = "a_grade"
          /\ req'[w].answers \in MalformedFor(req[w].a))
       => /\ submissions' = submissions
          /\ last'.detail = "ValidationError"]_vars

\* C24: a completed ContentProgress row stays completed, and mark_complete
\* calls for the same (enrollment, content), repeated or concurrent, keep one
\* row and award the content XP once: after every step the content has been
\* awarded once if its row exists and never otherwise, and a create that
\* finds the row of another request inserts and awards nothing.
C24_CompletedOnce ==
  [][/\ \A c \in progress : c \in progress'
     /\ \A c \in ContentIds :
          events'.content_completed[c] = IF c \in progress' THEN 1 ELSE 0
     /\ \A w \in Workers :
          (req[w].pc = "mc_create" /\ req'[w].pc # "mc_create"
             /\ req[w].content \in progress)
          => progress' = progress /\ events' = events]_vars

\* The row of c1 was created and awarded by one request while another
\* request for c1, which had found no row, is about to create it.
C24_Witness ==
  \E w \in Workers :
    /\ req[w].pc = "mc_create"
    /\ req[w].content \in progress
    /\ events.content_completed[req[w].content] = 1

\* C25 (as claimed): the course-completion award of mark_complete is made at
\* most once, and it has been made once when the enrollment was moved to
\* 'completed' by a mark_complete request and no mark_complete is running.
C25_CourseCompletedOnce ==
  /\ events.course_completed <= 1
  /\ ( /\ events.completed_by = "mark_complete"
       /\ \A w \in Workers : req[w].op # "mark_complete" )
     => events.course_completed = 1

\* C26 (as claimed): the gate and the INSERT are one atomic unit: no
\* submission of an assignment is persisted in a state in which a graded
\* submission of that assignment passes, so a passing submission has the
\* highest attempt_number of its assignment when it is graded and no later
\* attempt follows it.
C26_GateWriteAtomic ==
  [][\A a \in Assignments :
       Len(submissions'[a]) > Len(submissions[a]) => ~ BestPassed(a)]_vars

\* C27 (as claimed, read for the states in which no handler is running): an
\* enrollment with status 'completed' has a Certificate of its student for
\* the course.
C27_CompletedHasCertificate ==
  (enrStatus = "completed" /\ \A w \in Workers : req[w].pc = "idle")
  => CertificateExists("s1")

\* C28 (as claimed): the assignment_passed award is made at most once for
\* each assignment of the enrollment.
C28_AssignmentPassedOnce ==
  \A a \in Assignments : events.assignment_passed[a] <= 1

\* C29: can_attempt agrees with the gate: the attempt request made in the
\* state in which the flag was computed persists a submission (attempt
\* number attempts_used + 1) iff the flag is true, and is refused by rule 1,
\* 2 or 3 iff the flag is false.
C29_CanAttemptAgrees ==
  /\ \A w \in Workers :
       req[w].pc = "a_grade" => call.out /\ Len(submissions[call.a]) = call.used + 1
  /\ (call.fn = "answered" /\ last.op = "attempt")
     => /\ call.out <=> Len(submissions[call.a]) = call.used + 1
        /\ call.out <=> last.detail \notin GateErrors

\* The flag was false for a qa assignment with fewer than three attempts and
\* no passing grade, one of them not graded, and the attempt was refused by
\* rule 3.
C29_Witness ==
  /\ call.fn = "answered"
  /\ ~ call.out
  /\ call.used < AssignmentCfg[call.a].max_attempts
  /\ last = Response("attempt", "PendingGrading", CreateResponse("PendingGrading"), "-")

\* C30 (as claimed): calculate_progress of the enrollment lies in [0, 100]
\* (here in tenths of a percent) in every state.
C30_ProgressInRange ==
  calculate_progress >= 0 /\ calculate_progress <= 1000

====
